---- MODULE Spec2Model ----
(***************************************************************************)
(* A model of db/queries/base.py: DBQuery (relation building with join     *)
(* path resolution, alias provenance tracing) and InitialColumn.           *)
(***************************************************************************)
EXTENDS Integers, Sequences, FiniteSets, TLC

(* ---------------------------------------------------------------------- *)
(* Bounds of the model                                                     *)
(* ---------------------------------------------------------------------- *)
MaxPathLen == 2
MaxCols == 2
MaxBuilds == 2
MaxSteps == 2

(* ---------------------------------------------------------------------- *)
(* Python values.  A value is a record [py, items]: py is the Python type, *)
(* items the elements of a tuple/list or the characters of a str.          *)
(* ---------------------------------------------------------------------- *)
PyNone == [py |-> "None", items |-> <<>>]

PyTuple(s) == [py |-> "tuple", items |-> s]

PyList(s) == [py |-> "list", items |-> s]

PyStr(s) == [py |-> "str", items |-> s]

IsNone(v) == v.py = "None"

\* F(v), with v evaluated once before F is applied to it
Bind(v, F(_)) == CHOOSE r \in {F(x) : x \in {v}} : TRUE

Whitespace == {" ", "\t", "\n"}

RECURSIVE LStrip(_)
LStrip(s) ==
  IF s # <<>> /\ Head(s) \in Whitespace THEN LStrip(Tail(s)) ELSE s

RECURSIVE RStrip(_)
RStrip(s) ==
  IF s # <<>> /\ s[Len(s)] \in Whitespace
  THEN RStrip(SubSeq(s, 1, Len(s) - 1))
  ELSE s

\* str.strip()
Strip(s) == RStrip(LStrip(s))

(* ---------------------------------------------------------------------- *)
(* InitialColumn                                                           *)
(* ---------------------------------------------------------------------- *)

\* _guarantee_jp_path_tuples: None becomes the empty tuple; otherwise the
\* path and both endpoints of every edge are rebuilt as tuples.
\* a normalisation that converts the sequence of edges and leaves each edge
\* as it was given
NormalizeOuterOnly(jp_path) ==
  IF ~IsNone(jp_path) THEN PyTuple(jp_path.items) ELSE PyTuple(<<>>)

GuaranteeJpPathTuples(jp_path) ==
  IF ~IsNone(jp_path)
  THEN PyTuple([k \in 1..Len(jp_path.items) |->
                 PyTuple(<< PyTuple(jp_path.items[k].items[1].items),
                            PyTuple(jp_path.items[k].items[2].items) >>)])
  ELSE PyTuple(<<>>)

\* an assertion that compares the alias with "" without stripping it
AliasNotEmpty(alias) == alias.py = "str" /\ alias.items # <<>>

\* the assertion of InitialColumn.__init__
AliasAssertion(alias) == alias.py = "str" /\ Strip(alias.items) # <<>>

\* the attributes InitialColumn.__init__ sets (when its assertion holds)
InitialColumn(reloid, attnum, alias, jp_path) ==
  [py |-> "InitialColumn", reloid |-> reloid, attnum |-> attnum,
   alias |-> alias, jp_path |-> GuaranteeJpPathTuples(jp_path)]

\* self.__dict__ of an InitialColumn: the attributes __init__ sets
InstanceDict(self) ==
  [reloid |-> self.reloid, attnum |-> self.attnum, alias |-> self.alias,
   jp_path |-> self.jp_path]

\* InitialColumn.__eq__: the types are the same and the attributes are equal
InitialColumnEq(self, other) ==
  IF other.py = self.py THEN InstanceDict(self) = InstanceDict(other) ELSE FALSE

\* InitialColumn.__hash__: the hash of the frozen attribute dictionary, a
\* value that the items of the dictionary determine
InitialColumnHash(self) == << "frozendict", InstanceDict(self) >>

\* InitialColumn.is_base_column: "self.jp_path is None"
is_base_column(col) == IsNone(col.jp_path)

(* ---------------------------------------------------------------------- *)
(* The reflected schema: the collaborators of db.tables / db.columns       *)
(* ---------------------------------------------------------------------- *)
Oids == {10, 20, 30}

BaseOids == {10}

Attnums == {1, 2}

\* get_column_name_from_attnum(oid, attnum, engine, metadata)
get_column_name_from_attnum(oid, attnum) ==
  IF attnum = 1 THEN "id" ELSE IF oid = 10 THEN "ref" ELSE "name"

\* the keys of table.columns
ColumnNames(oid) == {get_column_name_from_attnum(oid, a) : a \in Attnums}

\* reflect_table_from_oid(oid, engine, metadata): the Table registered in
\* the metadata; inst = 0 marks the table itself (not an alias of it).
reflect_table_from_oid(oid) == [oid |-> oid, inst |-> 0, build |-> 0]

\* Table.alias(): a fresh anonymous alias instance of the table
TableAlias(table, n, build) == [oid |-> table.oid, inst |-> n, build |-> build]

\* table.columns[name]
Column(table, name) == [table |-> table, name |-> name]

\* The name str() shows for a table: the table name, and for an anonymous
\* alias either a name unique to the instance or a fixed placeholder,
\* depending on the library build (anon = TRUE: every anonymous alias is
\* shown as "anon_1").
TableDescription(table, anon) ==
  IF table.inst = 0 THEN <<"table", table.oid, 0>>
  ELSE IF anon THEN <<"anon", 1, 0>>
  ELSE <<"alias", table.build, table.inst>>

\* str(column): "<table description>.<column name>"
ColumnStr(col, anon) == <<TableDescription(col.table, anon), col.name>>

(* ---------------------------------------------------------------------- *)
(* Join edges and join paths used as inputs                                *)
(* ---------------------------------------------------------------------- *)
Endpoint(oid, attnum) == PyTuple(<<oid, attnum>>)

Edge(src, tgt) == PyTuple(<<src, tgt>>)

\* an edge to another table and an edge from the base table to itself
Edges ==
  { Edge(Endpoint(10, 2), Endpoint(20, 1)),
    Edge(Endpoint(10, 2), Endpoint(10, 1)) }

SeqsUpTo(S, n) == UNION {[1..k -> S] : k \in 0..n}

\* normalized join paths of at most MaxPathLen edges
JoinPaths == {PyTuple(s) : s \in SeqsUpTo(Edges, MaxPathLen)}

\* the table a join path ends in
PathTarget(base, jp_path) ==
  IF jp_path.items = <<>> THEN base
  ELSE jp_path.items[Len(jp_path.items)].items[2].items[1]

A == PyStr(<<"a">>)

B == PyStr(<<"b">>)

C == PyStr(<<"c">>)

(* ---------------------------------------------------------------------- *)
(* Transformation steps (db.transforms): objects with get_output_aliases,  *)
(* get_unique_constraint_mappings and map_of_output_alias_to_input_alias.  *)
(*   filter    : keeps the aliases, maps every alias to itself             *)
(*   hide      : drops one alias, maps every remaining alias to itself     *)
(*   summarize : outputs its grouping and aggregation aliases; a grouping  *)
(*               output maps to its input, an aggregation output to None   *)
(* ---------------------------------------------------------------------- *)
Filter == [type |-> "filter", hidden |-> PyNone,
           grouping |-> PyNone, aggregation |-> PyNone]

Hide(alias) == [type |-> "hide", hidden |-> alias,
                grouping |-> PyNone, aggregation |-> PyNone]

\* grouping and aggregation: [output_alias, input_alias]
Summarize(grouping, aggregation) ==
  [type |-> "summarize", hidden |-> PyNone,
   grouping |-> grouping, aggregation |-> aggregation]

UniqueConstraintMapping(output_alias, input_alias) ==
  [output_alias |-> output_alias, input_alias |-> input_alias]

get_output_aliases(transform, input_aliases) ==
  CASE transform.type = "filter" -> input_aliases
    [] transform.type = "hide" ->
         LET Keep(a) == a # transform.hidden IN SelectSeq(input_aliases, Keep)
    [] transform.type = "summarize" ->
         <<transform.grouping.output_alias, transform.aggregation.output_alias>>

get_unique_constraint_mappings(transform, input_aliases) ==
  CASE transform.type = "filter" ->
         [k \in 1..Len(input_aliases) |->
            UniqueConstraintMapping(input_aliases[k], input_aliases[k])]
    [] transform.type = "hide" ->
         LET kept == get_output_aliases(transform, input_aliases)
         IN [k \in 1..Len(kept) |-> UniqueConstraintMapping(kept[k], kept[k])]
    [] transform.type = "summarize" ->
         << UniqueConstraintMapping(transform.grouping.output_alias,
                                    transform.grouping.input_alias),
            UniqueConstraintMapping(transform.aggregation.output_alias, PyNone) >>

\* a dict is a function from its keys to their values
EmptyDict == [k \in {} |-> PyNone]

transform_map_of_output_alias_to_input_alias(transform) ==
  CASE transform.type \in {"filter", "hide"} -> EmptyDict
    [] transform.type = "summarize" ->
         [k \in {transform.grouping.output_alias,
                 transform.aggregation.output_alias} |->
            IF k = transform.aggregation.output_alias
            THEN transform.aggregation.input_alias
            ELSE transform.grouping.input_alias]

(* ---------------------------------------------------------------------- *)
(* DBQuery.__init__                                                        *)
(* ---------------------------------------------------------------------- *)

\* lines 30-33: no transformations is the empty tuple
DBQueryTransformations(transformations) ==
  IF IsNone(transformations) THEN PyTuple(<<>>) ELSE transformations

\* line 35: the handle given, or a fresh one from get_empty_metadata();
\* handles are numbers, 0 stands for "no handle given"
DBQueryMetadata(md, fresh) == IF md # 0 THEN md ELSE fresh

\* truth value of a list or tuple
Truthy(v) == Len(v.items) > 0

\* seq[:n] for n >= 0, keeping the type of the sequence
Slice(v, n) ==
  [py |-> v.py, items |-> SubSeq(v.items, 1, IF n < Len(v.items) THEN n ELSE Len(v.items))]

(* ---------------------------------------------------------------------- *)
(* State                                                                   *)
(* ---------------------------------------------------------------------- *)
VARIABLES
  base_table_oid,      \* DBQuery.base_table_oid
  initial_columns,     \* DBQuery.initial_columns
  transformations,     \* DBQuery.transformations
  metadata,            \* DBQuery.metadata: the handle, a number
  anon,                \* how the library shows anonymous aliases
  nextMeta,            \* handles handed out by get_empty_metadata so far
  pc,                  \* position inside initial_relation
  buildNo,             \* number of relation builds started
  colIx,               \* index of the initial column being processed
  edgeIx,              \* index i of the join loop (1-based)
  base_table,          \* local of initial_relation
  from_clause,         \* local of initial_relation
  jp_path_alias_map,   \* local of initial_relation
  jp_path_unique_set,  \* local of initial_relation
  right,               \* local of _process_initial_column
  columns,             \* labeled columns returned so far
  nextInst,            \* number of the next alias instance
  metaUsed,            \* handles used by reflection / name lookups
  err,                 \* exception raised by the build, "none" if none
  op,                  \* last operation called
  args,                \* its arguments
  ret                  \* its result

vars == << base_table_oid, initial_columns, transformations, metadata, anon,
           nextMeta, pc, buildNo, colIx, edgeIx, base_table, from_clause,
           jp_path_alias_map, jp_path_unique_set, right, columns, nextInst,
           metaUsed, err, op, args, ret >>

queryVars == << base_table_oid, initial_columns, transformations, metadata, anon >>

buildVars == << pc, buildNo, colIx, edgeIx, base_table, from_clause,
                jp_path_alias_map, jp_path_unique_set, right, columns,
                nextInst, metaUsed, err >>

opVars == << op, args, ret >>

(* ---------------------------------------------------------------------- *)
(* DBQuery.initial_relation                                                *)
(* ---------------------------------------------------------------------- *)

\* a start that keeps the join keys the previous build has seen
BuildStartKeepingSeen(oid, md, build, an) ==
  LET bt == reflect_table_from_oid(oid)
  IN [ md |-> md, build |-> build, anon |-> an,
       base_table |-> bt,
       from_clause |-> [base |-> bt, joins |-> <<>>],
       jp_path_alias_map |-> (PyTuple(<<>>) :> bt),
       jp_path_unique_set |-> jp_path_unique_set,
       right |-> bt,
       columns |-> <<>>,
       nextInst |-> 1,
       metaUsed |-> {md},
       err |-> "none" ]

\* a start with an empty alias map
BuildStartUnseeded(oid, md, build, an) ==
  LET bt == reflect_table_from_oid(oid)
  IN [ md |-> md, build |-> build, anon |-> an,
       base_table |-> bt,
       from_clause |-> [base |-> bt, joins |-> <<>>],
       jp_path_alias_map |-> [k \in {} |-> bt],
       jp_path_unique_set |-> {},
       right |-> bt,
       columns |-> <<>>,
       nextInst |-> 1,
       metaUsed |-> {md},
       err |-> "none" ]

\* lines 175-182: reflect the base table, seed the alias map and the set
BuildStart(oid, md, build, an) ==
  LET bt == reflect_table_from_oid(oid)
  IN [ md |-> md, build |-> build, anon |-> an,
       base_table |-> bt,
       from_clause |-> [base |-> bt, joins |-> <<>>],
       jp_path_alias_map |-> (PyTuple(<<>>) :> bt),
       jp_path_unique_set |-> {},
       right |-> bt,
       columns |-> <<>>,
       nextInst |-> 1,
       metaUsed |-> {md},
       err |-> "none" ]

\* a head that keeps the table instance the previous column ended with
ColumnBeginKeepingRight(s, col) ==
  [s EXCEPT !.metaUsed = @ \cup {s.md}]

\* lines 196-199: the head of _process_initial_column
ColumnBegin(s, col) ==
  [s EXCEPT !.right = s.base_table, !.metaUsed = @ \cup {s.md}]

\* a resolver that ignores the cache and aliases the table again
AlwaysFreshAlias(map, right_table, fresh) == fresh

\* lines 204-208: reuse the instance cached for the prefix, else a fresh alias
ResolveRight(map, right_table, fresh) ==
  IF right_table \in DOMAIN map THEN map[right_table] ELSE fresh

\* a dedup check that never finds the key
NeverSeen(join_columns, set) == FALSE

\* line 214: does the set already hold the key of this join
JoinSeen(join_columns, set) == join_columns \in set

\* lines 202-218: one iteration of the loop over the join path (i from 1)
JoinStepOn(s, jp_path, i) ==
  LET jp == jp_path.items[i]
      left_key == PyTuple(SubSeq(jp_path.items, 1, i - 1))
      right_table == PyTuple(SubSeq(jp_path.items, 1, i))
  IN
  IF left_key \notin DOMAIN s.jp_path_alias_map
  THEN [s EXCEPT !.err = "KeyError: jp_path_alias_map"]
  ELSE
    LET left == s.jp_path_alias_map[left_key]
        known == right_table \in DOMAIN s.jp_path_alias_map
        rt == ResolveRight(s.jp_path_alias_map, right_table,
                           TableAlias(reflect_table_from_oid(jp.items[2].items[1]),
                                      s.nextInst, s.build))
        map1 == [k \in DOMAIN s.jp_path_alias_map \cup {right_table} |->
                   IF k = right_table THEN rt ELSE s.jp_path_alias_map[k]]
        left_col_name == get_column_name_from_attnum(jp.items[1].items[1],
                                                     jp.items[1].items[2])
        right_col_name == get_column_name_from_attnum(jp.items[2].items[1],
                                                      jp.items[2].items[2])
        s1 == [s EXCEPT !.right = rt,
                        !.jp_path_alias_map = map1,
                        !.nextInst = IF known THEN @ ELSE @ + 1,
                        !.metaUsed = @ \cup {s.md}]
    IN
    IF left_col_name \notin ColumnNames(left.oid)
         \/ right_col_name \notin ColumnNames(rt.oid)
    THEN [s1 EXCEPT !.err = "KeyError"]
    ELSE
      LET left_col == Column(left, left_col_name)
          right_col == Column(rt, right_col_name)
          join_columns == <<ColumnStr(left_col, s.anon), ColumnStr(right_col, s.anon)>>
      IN
      IF ~JoinSeen(join_columns, s.jp_path_unique_set)
      THEN [s1 EXCEPT
              !.jp_path_unique_set = @ \cup {join_columns},
              !.from_clause.joins =
                 Append(@, [right |-> rt,
                            onclause |-> <<left_col, right_col>>,
                            isouter |-> TRUE])]
      ELSE s1

\* a label taken from the name of the column in its table
ColumnLabelByName(col) ==
  PyStr(<<get_column_name_from_attnum(col.reloid, col.attnum)>>)

JoinStep(s0, jp_path, i) == Bind(s0, LAMBDA s : JoinStepOn(s, jp_path, i))

\* line 220: the label of the column _process_initial_column returns
ColumnLabel(col) == col.alias

\* line 220: right.columns[col_name].label(col.alias)
ColumnEnd(s, col) ==
  LET col_name == get_column_name_from_attnum(col.reloid, col.attnum)
  IN IF col_name \notin ColumnNames(s.right.oid)
     THEN [s EXCEPT !.err = "KeyError"]
     ELSE [s EXCEPT !.columns =
             Append(@, [column |-> Column(s.right, col_name),
                        label |-> ColumnLabel(col)])]

RECURSIVE JoinLoop(_, _, _)
JoinLoop(s0, jp_path, i) ==
  Bind(s0, LAMBDA s :
    IF s.err # "none" \/ i > Len(jp_path.items) THEN s
    ELSE JoinLoop(JoinStep(s, jp_path, i), jp_path, i + 1))

\* lines 194-220: _process_initial_column(col)
ProcessInitialColumn(s, col) ==
  Bind(JoinLoop(ColumnBegin(s, col), GuaranteeJpPathTuples(col.jp_path), 1),
       LAMBDA s1 : IF s1.err # "none" THEN s1 ELSE ColumnEnd(s1, col))

RECURSIVE ProcessColumns(_, _, _)
ProcessColumns(s0, cols, k) ==
  Bind(s0, LAMBDA s :
    IF s.err # "none" \/ k > Len(cols) THEN s
    ELSE ProcessColumns(ProcessInitialColumn(s, cols[k]), cols, k + 1))

\* lines 222-225: the select over the labeled columns, as a CTE
Relation(s) ==
  IF s.err # "none" THEN [raised |-> s.err]
  ELSE [raised |-> "none", columns |-> s.columns, from_clause |-> s.from_clause,
        applied |-> <<>>]

\* the whole property: the final state of one build
InitialRelationBuild(oid, cols, md, build, an) ==
  ProcessColumns(BuildStart(oid, md, build, an), cols, 1)

(* ---------------------------------------------------------------------- *)
(* Aliases: get_input_aliases, alias tracing, the output-to-input map      *)
(* ---------------------------------------------------------------------- *)

\* DBQuery.initial_aliases
initial_aliases(cols) == [k \in 1..Len(cols) |-> cols[k].alias]

\* a fold that hands the initial aliases to every transform
RECURSIVE FoldFromInitial(_, _, _, _)
FoldFromInitial(previous_transforms, k, input_aliases, initial) ==
  IF k > Len(previous_transforms) THEN input_aliases
  ELSE FoldFromInitial(previous_transforms, k + 1,
                       get_output_aliases(previous_transforms[k], initial), initial)

\* lines 46-48: each transform turns the input aliases into its output aliases
RECURSIVE FoldOutputAliases(_, _, _, _)
FoldOutputAliases(previous_transforms, k, input_aliases, initial) ==
  IF k > Len(previous_transforms) THEN input_aliases
  ELSE FoldOutputAliases(previous_transforms, k + 1,
                         get_output_aliases(previous_transforms[k], input_aliases),
                         initial)

\* DBQuery.get_input_aliases(ix_of_transform)
get_input_aliases(cols, transforms, ix_of_transform) ==
  IF ix_of_transform = 0 THEN initial_aliases(cols)
  ELSE FoldOutputAliases(Slice(transforms, ix_of_transform).items, 1,
                         initial_aliases(cols), initial_aliases(cols))

\* lines 70-75: the aliases handed to get_unique_constraint_mappings of the
\* k-th transform; input_aliases is bound to initial_aliases and never rebound
UcInputAliases(cols, transforms, k) == initial_aliases(cols)

\* lines 72-75
uc_mappings_for_each_transform(cols, transforms) ==
  [k \in 1..Len(transforms) |->
     get_unique_constraint_mappings(transforms[k], UcInputAliases(cols, transforms, k))]

\* index of the first mapping of the list whose output alias is the alias, or 0
FirstMatch(uc_mappings, input_alias) ==
  LET hits == {j \in 1..Len(uc_mappings) : uc_mappings[j].output_alias = input_alias}
  IN IF hits = {} THEN 0 ELSE CHOOSE j \in hits : \A h \in hits : j <= h

\* a step that keeps the alias in hand when the mapping has no input alias
ScanKeepingAliasOnNone(uc_mappings, input_alias) ==
  LET j == FirstMatch(uc_mappings, input_alias)
  IN IF j = 0 \/ IsNone(uc_mappings[j].input_alias)
     THEN [alias |-> input_alias, match |-> j, returned |-> FALSE]
     ELSE [alias |-> uc_mappings[j].input_alias, match |-> j, returned |-> FALSE]

\* a scan that goes on to the later mappings after it has replaced the alias
RECURSIVE ScanFrom(_, _, _, _)
ScanFrom(uc_mappings, j, input_alias, match) ==
  IF j > Len(uc_mappings)
  THEN [alias |-> input_alias, match |-> match, returned |-> FALSE]
  ELSE IF uc_mappings[j].output_alias = input_alias
       THEN IF IsNone(uc_mappings[j].input_alias)
            THEN [alias |-> PyNone, match |-> j, returned |-> TRUE]
            ELSE ScanFrom(uc_mappings, j + 1, uc_mappings[j].input_alias, j)
       ELSE ScanFrom(uc_mappings, j + 1, input_alias, match)

ScanWithoutBreak(uc_mappings, input_alias) ==
  ScanFrom(uc_mappings, 1, input_alias, 0)

\* lines 77-82: the scan of the mappings of one transform
ScanMappings(uc_mappings, input_alias) ==
  LET j == FirstMatch(uc_mappings, input_alias)
  IN IF j = 0
     THEN [alias |-> input_alias, match |-> 0, returned |-> FALSE]
     ELSE [alias |-> uc_mappings[j].input_alias, match |-> j,
           returned |-> IsNone(uc_mappings[j].input_alias)]

\* a walk that ends at the first transform with no mapping for the alias
RECURSIVE WalkStoppingOnNoMatch(_, _, _, _)
WalkStoppingOnNoMatch(mappings, k, input_alias, visited) ==
  IF k = 0 THEN [value |-> input_alias, visited |-> visited]
  ELSE LET r == ScanMappings(mappings[k], input_alias)
           v == Append(visited, [step |-> k, alias |-> input_alias,
                                 match |-> r.match, to |-> r.alias])
       IN IF r.returned THEN [value |-> PyNone, visited |-> v]
          ELSE IF r.match = 0 THEN [value |-> input_alias, visited |-> v]
          ELSE WalkStoppingOnNoMatch(mappings, k - 1, r.alias, v)

\* lines 76-84: the walk over the transforms, last first; visited lists, for
\* every transform scanned, its index, the alias in hand and the match found
RECURSIVE WalkBack(_, _, _, _)
WalkBack(mappings, k, input_alias, visited) ==
  IF k = 0 THEN [value |-> input_alias, visited |-> visited]
  ELSE LET r == ScanMappings(mappings[k], input_alias)
           v == Append(visited, [step |-> k, alias |-> input_alias,
                                 match |-> r.match, to |-> r.alias])
       IN IF r.returned THEN [value |-> PyNone, visited |-> v]
          ELSE WalkBack(mappings, k - 1, r.alias, v)

\* DBQuery._get_initial_alias_by_input_alias
get_initial_alias_by_input_alias(cols, transforms, ix_of_transform, input_alias) ==
  IF ix_of_transform = 0
  THEN [value |-> input_alias, visited |-> <<>>, uc_inputs |-> <<>>, uc_mappings |-> <<>>]
  ELSE LET ts == Slice(transforms, ix_of_transform).items
           ms == uc_mappings_for_each_transform(cols, ts)
           w == WalkBack(ms, Len(ms), input_alias, <<>>)
       IN [value |-> w.value, visited |-> w.visited,
           uc_inputs |-> [k \in 1..Len(ts) |-> UcInputAliases(cols, ts, k)],
           uc_mappings |-> ms]

\* a lookup that returns on the first column whatever its alias
FirstInitialColumn(cols, alias) ==
  IF cols = <<>> THEN PyNone ELSE cols[1]

\* DBQuery._get_initial_column_by_initial_column_alias: the first column
\* with the alias; falls off the loop (None) when there is none
get_initial_column_by_initial_column_alias(cols, alias) ==
  LET hits == {k \in 1..Len(cols) : cols[k].alias = alias}
  IN IF hits = {} THEN PyNone
     ELSE cols[CHOOSE k \in hits : \A h \in hits : k <= h]

\* a lookup that indexes the columns by alias and raises for a missing key
GetColumnOrRaise(cols, transforms, ix_of_transform, input_alias) ==
  LET r == get_initial_alias_by_input_alias(cols, transforms, ix_of_transform, input_alias)
      found == get_initial_column_by_initial_column_alias(cols, r.value)
  IN [r EXCEPT !.value =
        IF IsNone(found) THEN [py |-> "KeyError", items |-> <<>>] ELSE found]

\* DBQuery.get_initial_column_by_input_alias
get_initial_column_by_input_alias(cols, transforms, ix_of_transform, input_alias) ==
  LET r == get_initial_alias_by_input_alias(cols, transforms, ix_of_transform, input_alias)
  IN [r EXCEPT !.value =
        IF IsNone(r.value) THEN PyNone
        ELSE get_initial_column_by_initial_column_alias(cols, r.value)]

\* a union in which the entries already present win
DictUnionKeepFirst(m1, m2) ==
  [k \in DOMAIN m1 \cup DOMAIN m2 |-> IF k \in DOMAIN m1 THEN m1[k] ELSE m2[k]]

\* dict | dict: the entries of the right operand win
DictUnion(m1, m2) ==
  [k \in DOMAIN m1 \cup DOMAIN m2 |-> IF k \in DOMAIN m2 THEN m2[k] ELSE m1[k]]

RECURSIVE FoldMaps(_, _, _)
FoldMaps(transforms, k, m) ==
  IF k > Len(transforms) THEN m
  ELSE FoldMaps(transforms, k + 1,
                DictUnion(m, transform_map_of_output_alias_to_input_alias(transforms[k])))

\* DBQuery.map_of_output_alias_to_input_alias
map_of_output_alias_to_input_alias(transforms) ==
  IF Truthy(transforms) THEN FoldMaps(transforms.items, 1, EmptyDict) ELSE EmptyDict

\* dict.get(key)
DictGet(m, key) == IF key \in DOMAIN m THEN m[key] ELSE PyNone

\* DBQuery.get_input_alias_for_output_alias
get_input_alias_for_output_alias(transforms, output_alias) ==
  DictGet(map_of_output_alias_to_input_alias(transforms), output_alias)

(* ---------------------------------------------------------------------- *)
(* The build of the initial relation, one loop iteration at a time         *)
(* ---------------------------------------------------------------------- *)
NoTable == [oid |-> 0, inst |-> 0, build |-> 0]

Cur ==
  [ md |-> metadata, build |-> buildNo, anon |-> anon,
    base_table |-> base_table, from_clause |-> from_clause,
    jp_path_alias_map |-> jp_path_alias_map,
    jp_path_unique_set |-> jp_path_unique_set,
    right |-> right, columns |-> columns, nextInst |-> nextInst,
    metaUsed |-> metaUsed, err |-> err ]

SetBuild(n) ==
  /\ base_table' = n.base_table
  /\ from_clause' = n.from_clause
  /\ jp_path_alias_map' = n.jp_path_alias_map
  /\ jp_path_unique_set' = n.jp_path_unique_set
  /\ right' = n.right
  /\ columns' = n.columns
  /\ nextInst' = n.nextInst
  /\ metaUsed' = n.metaUsed
  /\ err' = n.err

\* the path of the column being processed, made hashable (line 198)
CurJpPath == GuaranteeJpPathTuples(initial_columns[colIx].jp_path)

\* initial_relation is accessed: lines 175-182; op, args and ret keep the
\* last operation that returned and what it returned
StartBuild ==
  /\ pc = "idle"
  /\ buildNo < MaxBuilds
  /\ buildNo' = buildNo + 1
  /\ SetBuild(BuildStart(base_table_oid, metadata, buildNo + 1, anon))
  /\ colIx' = 1
  /\ edgeIx' = 0
  /\ pc' = "column"
  /\ UNCHANGED << queryVars, nextMeta, opVars >>

\* _process_initial_column is entered for the next column: lines 196-199
BeginColumn ==
  /\ pc = "column"
  /\ colIx <= Len(initial_columns)
  /\ SetBuild(ColumnBegin(Cur, initial_columns[colIx]))
  /\ edgeIx' = 1
  /\ pc' = "join"
  /\ UNCHANGED << queryVars, nextMeta, buildNo, colIx, opVars >>

\* one iteration of the loop over the join path: lines 201-218
JoinIteration ==
  /\ pc = "join"
  /\ edgeIx <= Len(CurJpPath.items)
  /\ LET n == JoinStep(Cur, CurJpPath, edgeIx)
     IN /\ SetBuild(n)
        /\ IF n.err # "none"
           THEN /\ pc' = "idle"
                /\ op' = "initial_relation"
                /\ args' = <<>>
                /\ ret' = Relation(n)
                /\ edgeIx' = 0
                /\ colIx' = 0
           ELSE /\ pc' = "join"
                /\ edgeIx' = edgeIx + 1
                /\ colIx' = colIx
                /\ UNCHANGED opVars
  /\ UNCHANGED << queryVars, nextMeta, buildNo >>

\* the loop is over, the labeled column is returned: line 220
EndColumn ==
  /\ pc = "join"
  /\ edgeIx > Len(CurJpPath.items)
  /\ LET n == ColumnEnd(Cur, initial_columns[colIx])
     IN /\ SetBuild(n)
        /\ IF n.err # "none"
           THEN /\ pc' = "idle"
                /\ op' = "initial_relation"
                /\ args' = <<>>
                /\ ret' = Relation(n)
                /\ colIx' = 0
           ELSE /\ pc' = "column"
                /\ colIx' = colIx + 1
                /\ UNCHANGED opVars
  /\ edgeIx' = 0
  /\ UNCHANGED << queryVars, nextMeta, buildNo >>

\* every column is processed, the statement is returned: lines 222-225
FinishBuild ==
  /\ pc = "column"
  /\ colIx > Len(initial_columns)
  /\ pc' = "idle"
  /\ colIx' = 0
  /\ op' = "initial_relation"
  /\ args' = <<>>
  /\ ret' = Relation(Cur)
  /\ UNCHANGED << queryVars, nextMeta, buildNo, edgeIx, base_table, from_clause,
                  jp_path_alias_map, jp_path_unique_set, right, columns,
                  nextInst, metaUsed, err >>

\* the state of a query on which no build has run
InitBuildVars ==
  /\ pc = "idle"
  /\ buildNo = 0
  /\ colIx = 0
  /\ edgeIx = 0
  /\ base_table = NoTable
  /\ from_clause = [base |-> NoTable, joins |-> <<>>]
  /\ jp_path_alias_map = (PyTuple(<<>>) :> NoTable)
  /\ jp_path_unique_set = {}
  /\ right = NoTable
  /\ columns = <<>>
  /\ nextInst = 1
  /\ metaUsed = {}
  /\ err = "none"

InitOpVars ==
  /\ op = "none"
  /\ args = <<>>
  /\ ret = PyNone

\* initial columns whose table is the one their join path ends in
BuildColumns ==
  { InitialColumn(PathTarget(10, p), 1, A, p) : p \in JoinPaths }

InitBuild ==
  /\ base_table_oid \in BaseOids
  /\ initial_columns \in SeqsUpTo(BuildColumns, MaxCols)
  /\ transformations = DBQueryTransformations(PyNone)
  /\ metadata = DBQueryMetadata(0, 1)
  /\ nextMeta = 1
  /\ anon \in BOOLEAN
  /\ InitBuildVars
  /\ InitOpVars

NextBuild ==
  \/ StartBuild
  \/ BeginColumn
  \/ JoinIteration
  \/ EndColumn
  \/ FinishBuild

SpecBuild == InitBuild /\ [][NextBuild]_vars

(* ---------------------------------------------------------------------- *)
(* The alias operations of a query                                         *)
(* ---------------------------------------------------------------------- *)
StepIndexes == 0..(Len(transformations.items) + 1)

AliasInputs == {A, B, C, PyNone}

GetInputAliases ==
  /\ pc = "idle"
  /\ \E ix \in StepIndexes :
       /\ op' = "get_input_aliases"
       /\ args' = <<ix>>
       /\ ret' = get_input_aliases(initial_columns, transformations, ix)
  /\ UNCHANGED << queryVars, nextMeta, buildVars >>

GetInitialColumnByInputAlias ==
  /\ pc = "idle"
  /\ \E ix \in StepIndexes, alias \in AliasInputs :
       /\ op' = "get_initial_column_by_input_alias"
       /\ args' = <<ix, alias>>
       /\ ret' = get_initial_column_by_input_alias(initial_columns, transformations,
                                                   ix, alias)
  /\ UNCHANGED << queryVars, nextMeta, buildVars >>

MapOfOutputAliasToInputAlias ==
  /\ pc = "idle"
  /\ op' = "map_of_output_alias_to_input_alias"
  /\ args' = <<>>
  /\ ret' = map_of_output_alias_to_input_alias(transformations)
  /\ UNCHANGED << queryVars, nextMeta, buildVars >>

GetInputAliasForOutputAlias ==
  /\ pc = "idle"
  /\ \E alias \in AliasInputs \ {PyNone} :
       /\ op' = "get_input_alias_for_output_alias"
       /\ args' = <<alias>>
       /\ ret' = get_input_alias_for_output_alias(transformations, alias)
  /\ UNCHANGED << queryVars, nextMeta, buildVars >>

\* the transformation steps used as inputs
Transforms ==
  {Filter, Hide(A)}
  \cup { Summarize([output_alias |-> g[1], input_alias |-> g[2]],
                   [output_alias |-> g[3], input_alias |-> A]) :
         g \in {<<B, A, A>>, <<A, B, C>>, <<A, A, C>>} }

TransformationInputs(S) ==
  {PyNone} \cup {PyList(t) : t \in SeqsUpTo(S, MaxSteps)}

\* columns of the base table
TraceColumns ==
  { InitialColumn(10, 1, A, PyNone), InitialColumn(10, 2, B, PyNone) }

InitTrace ==
  /\ base_table_oid \in BaseOids
  /\ initial_columns \in SeqsUpTo(TraceColumns, MaxCols)
  /\ \E t \in TransformationInputs(Transforms) :
        transformations = DBQueryTransformations(t)
  /\ metadata = DBQueryMetadata(0, 1)
  /\ nextMeta = 1
  /\ anon = FALSE
  /\ InitBuildVars
  /\ InitOpVars

NextTrace ==
  \/ GetInputAliases
  \/ GetInitialColumnByInputAlias
  \/ MapOfOutputAliasToInputAlias
  \/ GetInputAliasForOutputAlias

SpecTrace == InitTrace /\ [][NextTrace]_vars

(* ---------------------------------------------------------------------- *)
(* Builds and alias operations on one query                                *)
(* ---------------------------------------------------------------------- *)
\* a column of the base table and a column behind each edge
ReadColumns ==
  {InitialColumn(10, 1, A, PyNone)}
  \cup { InitialColumn(PathTarget(10, PyTuple(<<e>>)), 1, B, PyTuple(<<e>>)) :
          e \in Edges }

\* no transformation, a step that hides a column, a summarization
ReadTransforms ==
  { PyNone, PyList(<<Hide(A)>>),
    PyList(<< Summarize([output_alias |-> A, input_alias |-> B],
                        [output_alias |-> C, input_alias |-> A]) >>) }

InitReads ==
  /\ base_table_oid \in BaseOids
  /\ initial_columns \in SeqsUpTo(ReadColumns, MaxCols)
  /\ \E t \in ReadTransforms : transformations = DBQueryTransformations(t)
  /\ metadata = DBQueryMetadata(0, 1)
  /\ nextMeta = 1
  /\ anon \in BOOLEAN
  /\ InitBuildVars
  /\ InitOpVars

NextReads ==
  \/ NextBuild
  \/ NextTrace

SpecReads == InitReads /\ [][NextReads]_vars

(* ---------------------------------------------------------------------- *)
(* Relations of a query: transformed_relation, sa_output_columns,          *)
(* all_sa_columns_map.  A build is [rel, metaUsed]: the relation (or the   *)
(* exception raised) and the metadata handles its lookups used.            *)
(* ---------------------------------------------------------------------- *)

\* a query object
Query(oid, cols, transforms, md) ==
  [base_table_oid |-> oid, initial_columns |-> cols,
   transformations |-> transforms, metadata |-> md]

Self == Query(base_table_oid, initial_columns, transformations, metadata)

\* DBQuery.initial_relation, as one call
initial_relation(q, build, an) ==
  Bind(InitialRelationBuild(q.base_table_oid, q.initial_columns,
                            q.metadata, build, an),
       LAMBDA s : [rel |-> Relation(s), metaUsed |-> s.metaUsed])

\* the labels of the columns of a relation
Labels(rel) == [k \in 1..Len(rel.columns) |-> rel.columns[k].label]

\* apply_transformations (db.transforms.operations.apply): every step is
\* applied in list order; the columns of the result carry the output
\* aliases the steps declare
apply_transformations(rel, transforms) ==
  LET out == FoldOutputAliases(transforms.items, 1, Labels(rel), Labels(rel))
  IN IF transforms.items = <<>> THEN rel
     ELSE
     [raised |-> "none",
      columns |-> [k \in 1..Len(out) |->
                     [column |-> Column(NoTable, out[k]), label |-> out[k]]],
      from_clause |-> rel.from_clause,
      applied |-> transforms.items]

\* DBQuery.transformed_relation
transformed_relation(q, build, an) ==
  Bind(initial_relation(q, build, an), LAMBDA b :
    IF Truthy(q.transformations) /\ b.rel.raised = "none"
    THEN [b EXCEPT !.rel = apply_transformations(b.rel, q.transformations)]
    ELSE b)

\* MathesarColumn.from_column(col, engine)
MathesarColumn(col) ==
  [py |-> "MathesarColumn", name |-> col.label, column |-> col.column]

\* DBQuery.sa_output_columns
sa_output_columns(q, build, an) ==
  Bind(transformed_relation(q, build, an), LAMBDA b :
    IF b.rel.raised # "none" THEN b
    ELSE [rel |-> [raised |-> "none",
                   columns |-> [k \in 1..Len(b.rel.columns) |->
                                  MathesarColumn(b.rel.columns[k])]],
          metaUsed |-> b.metaUsed])

\* {col.name: col for col in cols}: the last column of a name is kept
DictByName(cols) ==
  [n \in {cols[k].name : k \in 1..Len(cols)} |->
     cols[CHOOSE k \in 1..Len(cols) :
            cols[k].name = n /\ \A h \in 1..Len(cols) : cols[h].name = n => h <= k]]

\* the metadata handle of the query built for the first i transformations
SubQueryMetadata(q, fresh) == DBQueryMetadata(0, fresh)

\* lines 134-140: the query of the first i transformations (i from 0); no
\* metadata is handed over, so __init__ takes a fresh handle
SubQuery(q, i, fresh) ==
  Query(q.base_table_oid, q.initial_columns,
        DBQueryTransformations(Slice(q.transformations, i)),
        SubQueryMetadata(q, fresh))

\* lines 132-140: the columns of the relations of the sub-queries, in order
RECURSIVE SubColumns(_, _)
SubColumns(sub, i) ==
  IF i > Len(sub) THEN <<>>
  ELSE [k \in 1..Len(sub[i].rel.columns) |-> MathesarColumn(sub[i].rel.columns[k])]
         \o SubColumns(sub, i + 1)

\* lines 124-143: the three maps merged, given the relations they are made of
AllColumnsMapOf(ini, out, sub) ==
  LET n == Len(sub)
      used == ini.metaUsed \cup out.metaUsed \cup UNION {sub[i].metaUsed : i \in 1..n}
      failed == ini.rel.raised # "none" \/ out.rel.raised # "none"
                  \/ \E i \in 1..n : sub[i].rel.raised # "none"
  IN IF failed THEN [rel |-> [raised |-> "KeyError"], metaUsed |-> used]
     ELSE [rel |-> [raised |-> "none",
                    map |-> DictUnion(
                              DictUnion(
                                DictByName([k \in 1..Len(ini.rel.columns) |->
                                              MathesarColumn(ini.rel.columns[k])]),
                                DictByName(SubColumns(sub, 1))),
                              DictByName(out.rel.columns))],
           metaUsed |-> used]

\* the relations of the sub-queries, from the first one (i transformations)
RECURSIVE SubRelations(_, _, _, _, _)
SubRelations(q, i, build, nextM, an) ==
  IF i >= Len(q.transformations.items) THEN <<>>
  ELSE <<transformed_relation(SubQuery(q, i, nextM + i + 1), build + i, an)>>
         \o SubRelations(q, i + 1, build, nextM, an)

\* DBQuery.all_sa_columns_map: builds number build+1, build+2 and one per
\* transformation; fresh handles are numbered from nextM+1
all_sa_columns_map(q, build, nextM, an) ==
  Bind(<< initial_relation(q, build + 1, an),
          sa_output_columns(q, build + 2, an),
          SubRelations(q, 0, build + 3, nextM, an) >>,
       LAMBDA b : AllColumnsMapOf(b[1], b[2], b[3]))

CallRelation(name, b, builds, metas) ==
  /\ pc = "idle"
  /\ buildNo < MaxBuilds
  /\ op' = name
  /\ args' = <<>>
  /\ ret' = b.rel
  /\ metaUsed' = b.metaUsed
  /\ buildNo' = buildNo + builds
  /\ nextMeta' = nextMeta + metas
  /\ UNCHANGED << queryVars, pc, colIx, edgeIx, base_table, from_clause,
                  jp_path_alias_map, jp_path_unique_set, right, columns,
                  nextInst, err >>

InitialRelation ==
  \E b \in {initial_relation(Self, buildNo + 1, anon)} :
     CallRelation("initial_relation", b, 1, 0)

TransformedRelation ==
  \E b \in {transformed_relation(Self, buildNo + 1, anon)} :
     CallRelation("transformed_relation", b, 1, 0)

SaOutputColumns ==
  \E b \in {sa_output_columns(Self, buildNo + 1, anon)} :
     CallRelation("sa_output_columns", b, 1, 0)

AllSaColumnsMap ==
  \E b \in {all_sa_columns_map(Self, buildNo, nextMeta, anon)} :
     CallRelation("all_sa_columns_map", b,
                  2 + Len(transformations.items), Len(transformations.items))

\* columns of the base table and columns reached over one edge
QueryColumns ==
  { InitialColumn(PathTarget(10, p), 1, al, p) :
      p \in {PyTuple(<<>>), PyTuple(<<Edge(Endpoint(10, 2), Endpoint(20, 1))>>)},
      al \in {A, B} }

QueryTransforms ==
  {Filter,
   Summarize([output_alias |-> B, input_alias |-> A],
             [output_alias |-> C, input_alias |-> A])}

\* the query is constructed with a metadata handle (1) or without one
InitQuery ==
  /\ base_table_oid \in BaseOids
  /\ initial_columns \in SeqsUpTo(QueryColumns, MaxCols)
  /\ \E t \in TransformationInputs(QueryTransforms) \cup {PyTuple(<<>>)} :
        transformations = DBQueryTransformations(t)
  /\ \E md \in {0, 1} : metadata = DBQueryMetadata(md, 2)
  /\ nextMeta = 2
  /\ anon \in BOOLEAN
  /\ InitBuildVars
  /\ InitOpVars

NextQuery ==
  \/ InitialRelation
  \/ TransformedRelation
  \/ SaOutputColumns
  \/ AllSaColumnsMap

SpecQuery == InitQuery /\ [][NextQuery]_vars

(* ---------------------------------------------------------------------- *)
(* Construction of InitialColumns                                          *)
(* ---------------------------------------------------------------------- *)

\* a normalized path written with lists ("list"), or as a list of tuple
\* edges with list endpoints ("mixed"), or left as it is ("tuple")
Retag(jp_path, form) ==
  LET outer == IF form = "tuple" THEN "tuple" ELSE "list"
      mid == IF form = "list" THEN "list" ELSE "tuple"
      inner == IF form = "tuple" THEN "tuple" ELSE "list"
  IN [py |-> outer,
      items |-> [k \in 1..Len(jp_path.items) |->
                   [py |-> mid,
                    items |-> << [py |-> inner, items |-> jp_path.items[k].items[1].items],
                                 [py |-> inner, items |-> jp_path.items[k].items[2].items] >>]]]

ColumnEdges == { Edge(Endpoint(10, 2), Endpoint(20, 1)) }

\* the attnum arguments
ColumnAttnums == {1, 2}

\* the jp_path arguments: None, and paths as tuples, lists or a mix
JpPathInputs ==
  {PyNone} \cup
  { Retag(PyTuple(p), form) :
      p \in SeqsUpTo(ColumnEdges, MaxPathLen), form \in {"tuple", "list", "mixed"} }

\* the alias arguments: a name, the empty string, a blank string, a non-string
AliasArguments == {A, PyStr(<<>>), PyStr(<<" ">>), [py |-> "int", items |-> <<>>]}

\* InitialColumn(reloid, attnum, alias, jp_path); the columns constructed
\* are kept in initial_columns
NewInitialColumn ==
  /\ Len(initial_columns) < MaxCols
  /\ \E attnum \in ColumnAttnums, alias \in AliasArguments, jp_path \in JpPathInputs :
       /\ op' = "InitialColumn"
       /\ args' = <<10, attnum, alias, jp_path>>
       /\ IF AliasAssertion(alias)
          THEN /\ ret' = InitialColumn(10, attnum, alias, jp_path)
               /\ initial_columns' = Append(initial_columns, ret')
          ELSE /\ ret' = [py |-> "AssertionError", items |-> <<>>]
               /\ initial_columns' = initial_columns
  /\ UNCHANGED << base_table_oid, transformations, metadata, anon, nextMeta, buildVars >>

\* column.is_base_column
IsBaseColumn ==
  /\ \E k \in 1..Len(initial_columns) :
       /\ op' = "is_base_column"
       /\ args' = <<k>>
       /\ ret' = is_base_column(initial_columns[k])
  /\ UNCHANGED << queryVars, nextMeta, buildVars >>

\* column == other, where other is a column (k2 > 0) or None (k2 = 0)
ColumnEq ==
  /\ \E k1 \in 1..Len(initial_columns), k2 \in 0..Len(initial_columns) :
       /\ op' = "__eq__"
       /\ args' = <<k1, k2>>
       /\ ret' = InitialColumnEq(initial_columns[k1],
                                 IF k2 = 0 THEN PyNone ELSE initial_columns[k2])
  /\ UNCHANGED << queryVars, nextMeta, buildVars >>

\* hash(column)
ColumnHash ==
  /\ \E k \in 1..Len(initial_columns) :
       /\ op' = "__hash__"
       /\ args' = <<k>>
       /\ ret' = InitialColumnHash(initial_columns[k])
  /\ UNCHANGED << queryVars, nextMeta, buildVars >>

InitColumn ==
  /\ base_table_oid \in BaseOids
  /\ initial_columns = <<>>
  /\ transformations = DBQueryTransformations(PyNone)
  /\ metadata = DBQueryMetadata(0, 1)
  /\ nextMeta = 1
  /\ anon = FALSE
  /\ InitBuildVars
  /\ InitOpVars

NextColumn ==
  \/ NewInitialColumn
  \/ IsBaseColumn
  \/ ColumnEq
  \/ ColumnHash

SpecColumn == InitColumn /\ [][NextColumn]_vars

\* C6 as stated: is_base_column is true exactly for the columns whose join
\* path is empty.
C6_BaseIffEmptyPath ==
  /\ op = "is_base_column" =>
       ret = (Len(initial_columns[args[1]].jp_path.items) = 0)
  /\ (op = "InitialColumn" /\ ret.py = "InitialColumn") =>
       is_base_column(ret) = (IsNone(args[4]) \/ Len(args[4].items) = 0)

(* ---------------------------------------------------------------------- *)
(* Properties of the join path resolver                                    *)
(* ---------------------------------------------------------------------- *)
Building == pc \in {"column", "join"}

BuildDone == pc = "idle" /\ buildNo > 0 /\ err = "none"

\* the prefix of length n of a normalized path
Prefix(jp_path, n) == PyTuple(SubSeq(jp_path.items, 1, n))

\* the alias map keeps every entry it has, with the same instance
AliasMapKept ==
  \A p \in DOMAIN jp_path_alias_map :
     /\ p \in DOMAIN jp_path_alias_map'
     /\ jp_path_alias_map'[p] = jp_path_alias_map[p]

\* the instance in hand after i iterations is the one cached for the prefix
RightIsCached ==
  (pc = "join" /\ edgeIx > 1) =>
     /\ Prefix(CurJpPath, edgeIx - 1) \in DOMAIN jp_path_alias_map
     /\ right = jp_path_alias_map[Prefix(CurJpPath, edgeIx - 1)]

EmptyPrefixIsBase ==
  (Building \/ BuildDone) =>
     /\ jp_path_alias_map[PyTuple(<<>>)] = base_table
     /\ base_table = reflect_table_from_oid(base_table_oid)
     /\ base_table.inst = 0

\* C1: during one build every join-path prefix keeps the one table instance
\* it was first resolved to (an entry of the alias map is never replaced or
\* removed), the instance a column walks through for a prefix is the cached
\* one, so columns sharing a prefix share the instance, and the empty prefix
\* maps to the un-aliased base table.
C1_PrefixResolvedOnce ==
  /\ [](RightIsCached /\ EmptyPrefixIsBase)
  /\ [][buildNo' = buildNo => AliasMapKept]_vars

\* the second column has walked a non-empty prefix it shares with the first
\* column, and no second alias instance was made for it
C1_Witness ==
  /\ pc = "join" /\ colIx = 2 /\ edgeIx = 2
  /\ Len(initial_columns[1].jp_path.items) >= 1
  /\ Prefix(initial_columns[1].jp_path, 1) = Prefix(initial_columns[2].jp_path, 1)
  /\ right = jp_path_alias_map[Prefix(initial_columns[1].jp_path, 1)]
  /\ right.inst = 1
  /\ nextInst = Len(initial_columns[1].jp_path.items) + 1

\* the edges used by the join paths of the columns
DistinctEdges(cols) ==
  UNION { {cols[c].jp_path.items[k] : k \in 1..Len(cols[c].jp_path.items)} :
          c \in 1..Len(cols) }

\* the non-empty prefixes of the join paths of the columns
DistinctPrefixes(cols) ==
  UNION { {Prefix(cols[c].jp_path, k) : k \in 1..Len(cols[c].jp_path.items)} :
          c \in 1..Len(cols) }

NumSteps == Len(transformations.items)

\* the input aliases of step N, by the recurrence: the aliases of the initial
\* columns for N = 0, else what step N-1 declares for the aliases before it
RECURSIVE InputAliasesBefore(_)
InputAliasesBefore(N) ==
  IF N = 0 THEN [k \in 1..Len(initial_columns) |-> initial_columns[k].alias]
  ELSE get_output_aliases(transformations.items[N], InputAliasesBefore(N - 1))

Traced == op = "get_initial_column_by_input_alias"

\* C3 as stated: in a trace from stepIndex > 0 the uniqueness mappings of
\* step k are computed from the input aliases of step k.
C3_MappingsFromStepAliases ==
  (Traced /\ args[1] >= 1 /\ args[1] <= NumSteps) =>
     \A k \in 1..args[1] : ret.uc_inputs[k] = InputAliasesBefore(k - 1)

\* the mapping a visited step matched has no input alias
MatchedNone(v) ==
  v.match > 0 /\ IsNone(ret.uc_mappings[v.step][v.match].input_alias)

\* C4: when the mapping matching the alias in hand has no input alias, the
\* trace returns None and visits no earlier step.
C4_NoneOnNullMapping ==
  Traced =>
     \A n \in 1..Len(ret.visited) :
        MatchedNone(ret.visited[n]) => IsNone(ret.value) /\ n = Len(ret.visited)

\* a trace from step 2 stopped by a null mapping of the last step, the alias
\* queried being the alias of an initial column
C4_Witness ==
  /\ Traced /\ args[1] = 2 /\ NumSteps = 2
  /\ Len(ret.visited) = 1
  /\ MatchedNone(ret.visited[1])
  /\ IsNone(ret.value)
  /\ \E k \in 1..Len(initial_columns) : initial_columns[k].alias = args[2]

\* C5: get_input_aliases(N) is the alias list of the initial columns for
\* N = 0 and the output aliases of step N-1 for the input aliases of N-1.
C5_InputAliasesRecurrence ==
  (op = "get_input_aliases" /\ args[1] <= NumSteps) =>
     ret = InputAliasesBefore(args[1])

\* the aliases before step 2 differ from the initial ones and from what the
\* second step would declare for the initial ones
C5_Witness ==
  /\ op = "get_input_aliases" /\ args[1] = 2 /\ NumSteps = 2
  /\ ret # InputAliasesBefore(0)
  /\ ret # get_output_aliases(transformations.items[2], InputAliasesBefore(0))
  /\ ret # <<>>

\* C8: with no transformations, tracing an initial alias from step 0 gives
\* an initial column of the query that carries the alias.
C8_TraceAtStepZero ==
  (Traced /\ NumSteps = 0 /\ args[1] = 0
     /\ \E k \in 1..Len(initial_columns) : initial_columns[k].alias = args[2]) =>
        /\ \E k \in 1..Len(initial_columns) : ret.value = initial_columns[k]
        /\ ret.value.py = "InitialColumn"
        /\ ret.value.alias = args[2]

\* the column found is the second one
C8_Witness ==
  /\ Traced /\ NumSteps = 0 /\ args[1] = 0
  /\ Len(initial_columns) = 2
  /\ initial_columns[1].alias # args[2]
  /\ ret.value = initial_columns[2]

\* the steps whose own map defines the alias
Definers(alias) ==
  {k \in 1..NumSteps :
     alias \in DOMAIN transform_map_of_output_alias_to_input_alias(transformations.items[k])}

LastDefiner(alias) == CHOOSE k \in Definers(alias) : \A h \in Definers(alias) : h <= k

\* what the last step defining the alias maps it to
LastDefinition(alias) ==
  transform_map_of_output_alias_to_input_alias(
     transformations.items[LastDefiner(alias)])[alias]

\* C9: the map holds exactly the aliases some step defines, each with the
\* input alias of the last step defining it; the lookup of an alias no step
\* defines gives None.
C9_LastStepWins ==
  /\ op = "map_of_output_alias_to_input_alias" =>
       /\ DOMAIN ret = {a \in AliasInputs : Definers(a) # {}}
       /\ \A a \in DOMAIN ret : ret[a] = LastDefinition(a)
  /\ op = "get_input_alias_for_output_alias" =>
       ret = IF Definers(args[1]) = {} THEN PyNone ELSE LastDefinition(args[1])

\* two steps define the same alias differently and the later one is kept
C9_Witness ==
  /\ op = "map_of_output_alias_to_input_alias"
  /\ \E a \in DOMAIN ret :
        /\ Cardinality(Definers(a)) = 2
        /\ \E k \in Definers(a) :
              transform_map_of_output_alias_to_input_alias(
                 transformations.items[k])[a] # ret[a]

(* ---------------------------------------------------------------------- *)
(* Properties of the relations of a query                                  *)
(* ---------------------------------------------------------------------- *)

\* C7: with no transformations, transformed_relation is the relation the
\* builder produces, nothing applied to it, and its columns are labeled
\* with the aliases of the initial columns, in their order.
C7_NoStepsIsInitialRelation ==
  (op = "transformed_relation" /\ NumSteps = 0 /\ ret.raised = "none") =>
     /\ Labels(ret) = [k \in 1..Len(initial_columns) |-> initial_columns[k].alias]
     /\ ret.applied = <<>>
     /\ ret = initial_relation(Self, buildNo, anon).rel

\* two columns with different aliases, one of them reached over a join
C7_Witness ==
  /\ op = "transformed_relation" /\ NumSteps = 0 /\ ret.raised = "none"
  /\ Len(ret.columns) = 2
  /\ ret.columns[1].label = B /\ ret.columns[2].label = A
  /\ Len(ret.from_clause.joins) = 1

\* C10 as stated: every lookup made while a relation, the output columns or
\* the all-columns map of the query is computed uses the metadata handle of
\* the query.
C10_OneMetadataHandle ==
  op \in {"initial_relation", "transformed_relation", "sa_output_columns",
          "all_sa_columns_map"} => metaUsed \subseteq {metadata}

(* ---------------------------------------------------------------------- *)
(* Properties of InitialColumn                                             *)
(* ---------------------------------------------------------------------- *)
\* an alias argument that is not a string, or has no character other than
\* whitespace
Blank(alias) ==
  \/ alias.py # "str"
  \/ \A k \in 1..Len(alias.items) : alias.items[k] \in Whitespace

\* an attempted construction is the last operation
Constructed == op = "InitialColumn"

C11_StateOfAliases ==
  /\ Constructed => ((ret.py = "AssertionError") <=> Blank(args[3]))
  /\ (Constructed /\ ret.py = "InitialColumn") => ret.alias = args[3]
  /\ \A k \in 1..Len(initial_columns) : ~Blank(initial_columns[k].alias)

C11_FailedConstructionKeepsColumns ==
  (op' = "InitialColumn" /\ ret'.py = "AssertionError")
    => initial_columns' = initial_columns

\* C11: a construction whose alias is not a string, is empty or is only
\* whitespace fails with an assertion error and adds no column; a
\* construction that succeeds keeps the alias it was given; no column with
\* a blank alias exists.
C11_BlankAliasRejected ==
  [] C11_StateOfAliases /\ [][C11_FailedConstructionKeepsColumns]_vars

\* a whitespace-only alias was rejected after a column had been constructed
C11_Witness ==
  /\ Constructed
  /\ args[3] = PyStr(<<" ">>)
  /\ ret.py = "AssertionError"
  /\ Len(initial_columns) = 1

\* the join path a column stores for a jp_path argument: no edge for None,
\* and the same edges as tuples otherwise
TuplesOnly(jp_path) ==
  IF IsNone(jp_path) THEN PyTuple(<<>>) ELSE Retag(jp_path, "tuple")

\* the four attributes of two columns are equal
SameAttributes(c1, c2) ==
  /\ c1.reloid = c2.reloid
  /\ c1.attnum = c2.attnum
  /\ c1.alias = c2.alias
  /\ c1.jp_path = c2.jp_path

\* C13: the join path of a constructed column is the normal form of the
\* argument (None, an empty sequence and lists give what tuples give) and
\* normalising it again changes nothing; two columns are equal exactly when
\* their table id, attnum, alias and join path are equal, a column equals no
\* object of another type, and equal columns have equal hashes.
C13_StructuralEquality ==
  /\ (Constructed /\ ret.py = "InitialColumn") =>
       /\ ret.jp_path = TuplesOnly(args[4])
       /\ GuaranteeJpPathTuples(ret.jp_path) = ret.jp_path
  /\ op = "__eq__" =>
       ret = (/\ args[2] > 0
              /\ SameAttributes(initial_columns[args[1]], initial_columns[args[2]]))
  /\ op = "__hash__" =>
       \A k \in 1..Len(initial_columns) :
         InitialColumnEq(initial_columns[args[1]], initial_columns[k])
           => ret = InitialColumnHash(initial_columns[k])
  /\ \A k1, k2 \in 1..Len(initial_columns) :
       InitialColumnEq(initial_columns[k1], initial_columns[k2])
         <=> SameAttributes(initial_columns[k1], initial_columns[k2])

\* two separately constructed columns with a join are equal
C13_Witness ==
  /\ op = "__eq__"
  /\ args[1] # args[2]
  /\ ret = TRUE
  /\ Len(initial_columns[args[1]].jp_path.items) > 0

(* ---------------------------------------------------------------------- *)
(* Properties of the backward walk                                         *)
(* ---------------------------------------------------------------------- *)
\* the alias the backward walk ends with: the alias queried when no step
\* was visited, else what the last visited step left
ReducedAlias ==
  IF ret.visited = <<>> THEN args[2] ELSE ret.visited[Len(ret.visited)].to

\* no initial column has the alias
NoColumnNamed(alias) ==
  \A k \in 1..Len(initial_columns) : initial_columns[k].alias # alias

\* C12: for every step index and alias the trace returns None or an initial
\* column of the query, never an error; it returns None when the reduced
\* alias is the alias of no initial column, and otherwise the column
\* returned has the reduced alias.
C12_NoneForUnknownAlias ==
  Traced =>
    /\ ret.value.py \in {"None", "InitialColumn"}
    /\ (IsNone(ReducedAlias) \/ NoColumnNamed(ReducedAlias)) => IsNone(ret.value)
    /\ ret.value.py = "InitialColumn" =>
         /\ ret.value.alias = ReducedAlias
         /\ \E k \in 1..Len(initial_columns) : initial_columns[k] = ret.value

\* an alias no step mentions and no column has, traced through every step
C12_Witness ==
  /\ Traced /\ args[1] = NumSteps + 1 /\ NumSteps = 2
  /\ args[2] = C
  /\ initial_columns # <<>>
  /\ Len(ret.visited) = 2
  /\ \A n \in 1..2 : ret.visited[n].match = 0
  /\ IsNone(ret.value)

\* the mappings of a visited step have no entry for the alias in hand
NoEntryFor(v) ==
  \A j \in 1..Len(ret.uc_mappings[v.step]) :
     ret.uc_mappings[v.step][j].output_alias # v.alias

\* the number of steps a trace from step index ix walks over
StepsBefore(ix) == IF ix <= NumSteps THEN ix ELSE NumSteps

\* C14: the walk visits the steps before the step index from the last to
\* the first, each with the alias the step after it left; a step with no
\* mapping for the alias leaves it unchanged and the walk goes on with the
\* next earlier step, down to the first.
C14_PassThroughUnchanged ==
  Traced =>
    /\ Len(ret.visited) <= StepsBefore(args[1])
    /\ \A n \in 1..Len(ret.visited) :
         /\ ret.visited[n].step = StepsBefore(args[1]) - n + 1
         /\ ret.visited[n].alias =
              (IF n = 1 THEN args[2] ELSE ret.visited[n - 1].to)
         /\ NoEntryFor(ret.visited[n]) =>
              /\ ret.visited[n].to = ret.visited[n].alias
              /\ ret.visited[n].step > 1 => n < Len(ret.visited)
    /\ (ret.visited = <<>>) = (StepsBefore(args[1]) = 0)

\* a trace from step 2: the last step has no mapping for the alias, the
\* first step rewrites it
C14_Witness ==
  /\ Traced /\ args[1] = 2 /\ NumSteps = 2
  /\ Len(ret.visited) = 2
  /\ NoEntryFor(ret.visited[1])
  /\ ~NoEntryFor(ret.visited[2])
  /\ ret.visited[2].alias = args[2]
  /\ ret.visited[2].to # args[2]
  /\ ~IsNone(ret.value)

\* j is the first mapping of the step of v whose output alias is the alias
\* in hand
FirstEntryFor(v, j) ==
  /\ ret.uc_mappings[v.step][j].output_alias = v.alias
  /\ \A h \in 1..(j - 1) : ret.uc_mappings[v.step][h].output_alias # v.alias

\* the visited steps that rewrote the alias
Rewrites == {n \in 1..Len(ret.visited) : ret.visited[n].match > 0}

\* C20: a visited step rewrites the alias at most once, with the input alias
\* of the first mapping whose output alias is the alias in hand, whatever
\* the later mappings of the step are; every step is visited at most once,
\* so a trace from step index ix makes at most ix rewrites.
C20_FirstMappingOnly ==
  Traced =>
    /\ \A n \in 1..Len(ret.visited) :
         IF NoEntryFor(ret.visited[n])
         THEN ret.visited[n].match = 0 /\ ret.visited[n].to = ret.visited[n].alias
         ELSE /\ ret.visited[n].match \in 1..Len(ret.uc_mappings[ret.visited[n].step])
              /\ FirstEntryFor(ret.visited[n], ret.visited[n].match)
              /\ ret.visited[n].to =
                   ret.uc_mappings[ret.visited[n].step][ret.visited[n].match].input_alias
    /\ \A n1, n2 \in 1..Len(ret.visited) :
         ret.visited[n1].step = ret.visited[n2].step => n1 = n2
    /\ Cardinality(Rewrites) <= args[1]

\* a step rewrote the alias with its first mapping although a later mapping
\* of the step has the rewritten alias as output alias, and the trace found
\* the column of the rewritten alias
C20_Witness ==
  /\ Traced /\ args[1] = 1
  /\ Len(ret.visited) = 1
  /\ ret.visited[1].match = 1
  /\ \E j \in 2..Len(ret.uc_mappings[1]) :
        ret.uc_mappings[1][j].output_alias = ret.visited[1].to
  /\ ret.value.py = "InitialColumn"
  /\ ret.value.alias = ret.visited[1].to

(* ---------------------------------------------------------------------- *)
(* Properties of a build: prefixes, projections, joins                     *)
(* ---------------------------------------------------------------------- *)
\* every non-empty prefix the alias map holds has its parent prefix there
PrefixClosed ==
  \A p \in DOMAIN jp_path_alias_map :
     Len(p.items) > 0 => Prefix(p, Len(p.items) - 1) \in DOMAIN jp_path_alias_map

\* C15: in every state the alias map holds the empty prefix and, with each
\* prefix, its parent; the prefix the next iteration looks up as its left
\* table is in the map; the lookup never fails.
C15_PrefixClosed ==
  /\ PyTuple(<<>>) \in DOMAIN jp_path_alias_map
  /\ PrefixClosed
  /\ (pc = "join" /\ edgeIx <= Len(CurJpPath.items)) =>
        Prefix(CurJpPath, edgeIx - 1) \in DOMAIN jp_path_alias_map
  /\ err # "KeyError: jp_path_alias_map"

\* the second iteration over a path of two edges found the prefix of length
\* one, which the first iteration of the same walk had added
C15_Witness ==
  /\ pc = "join" /\ colIx = 2 /\ edgeIx = 3
  /\ Len(CurJpPath.items) = 2
  /\ initial_columns[1].jp_path.items = <<>>
  /\ Cardinality(DOMAIN jp_path_alias_map) = 3
  /\ err = "none"

\* C16: a finished build has one projection per initial column, in the
\* order of the columns; each is the column of the table instance the alias
\* map holds for the whole join path of the initial column (the base table
\* for an empty path), labeled with the alias of the initial column; the
\* relation returned holds these projections.
C16_ProjectionPerColumn ==
  /\ pc = "column" => Len(columns) = colIx - 1
  /\ BuildDone =>
       /\ Len(columns) = Len(initial_columns)
       /\ \A k \in 1..Len(initial_columns) :
            /\ initial_columns[k].jp_path \in DOMAIN jp_path_alias_map
            /\ columns[k].column.table = jp_path_alias_map[initial_columns[k].jp_path]
            /\ initial_columns[k].jp_path.items = <<>> =>
                 columns[k].column.table = base_table
            /\ columns[k].column.name =
                 get_column_name_from_attnum(initial_columns[k].reloid,
                                             initial_columns[k].attnum)
            /\ columns[k].label = initial_columns[k].alias
       /\ op = "initial_relation" => ret.columns = columns

\* a finished build whose first column is behind a join and whose second
\* column is a column of the base table
C16_Witness ==
  /\ BuildDone /\ op = "initial_relation"
  /\ Len(initial_columns) = 2
  /\ Len(initial_columns[1].jp_path.items) > 0
  /\ initial_columns[2].jp_path.items = <<>>
  /\ columns[1].column.table.inst > 0
  /\ columns[2].column.table = base_table

\* C18 as stated: a join clause is appended exactly where an alias instance
\* is created, so the join clauses, the alias instances created and the
\* non-empty prefixes in the alias map are equally many.
C18_JoinPerFreshAlias ==
  err = "none" =>
    /\ Len(from_clause.joins) = nextInst - 1
    /\ nextInst - 1 = Cardinality(DOMAIN jp_path_alias_map) - 1

\* the table instances joined so far
Joined(n) == {from_clause.joins[h].right : h \in 1..n}

\* C19 as stated: the left side of every join clause is a column of the
\* base table or of a table instance an earlier join clause joined.
C19_ParentBeforeChild ==
  \A j \in 1..Len(from_clause.joins) :
     \/ from_clause.joins[j].onclause[1].table = base_table
     \/ from_clause.joins[j].onclause[1].table \in Joined(j - 1)

(* ---------------------------------------------------------------------- *)
(* Properties of successive reads of one query                             *)
(* ---------------------------------------------------------------------- *)
\* a table instance without the number of the build that made it
Untagged(table) == [oid |-> table.oid, inst |-> table.inst]

UntaggedColumn(col) == [table |-> Untagged(col.table), name |-> col.name]

\* the joins and the labeled projections of a relation, in order, or the
\* error the build raised
Emitted(rel) ==
  IF rel.raised # "none" THEN [raised |-> rel.raised]
  ELSE [ raised |-> "none",
         base |-> rel.from_clause.base,
         joins |-> [j \in 1..Len(rel.from_clause.joins) |->
                      [right |-> Untagged(rel.from_clause.joins[j].right),
                       left_col |-> UntaggedColumn(rel.from_clause.joins[j].onclause[1]),
                       right_col |-> UntaggedColumn(rel.from_clause.joins[j].onclause[2]),
                       isouter |-> rel.from_clause.joins[j].isouter]],
         columns |-> [k \in 1..Len(rel.columns) |->
                        [column |-> UntaggedColumn(rel.columns[k].column),
                         label |-> rel.columns[k].label]] ]

\* no operation changes the fields of the query
QueryKept == queryVars' = queryVars

\* a build starts with the empty prefix alone in the alias map, mapped to
\* the base table, with no join key seen and nothing emitted
FreshScope ==
  buildNo' # buildNo =>
    /\ base_table' = reflect_table_from_oid(base_table_oid)
    /\ jp_path_alias_map' = (PyTuple(<<>>) :> base_table')
    /\ jp_path_unique_set' = {}
    /\ from_clause' = [base |-> base_table', joins |-> <<>>]
    /\ columns' = <<>>

\* a build that returns right after another build returned emits what that
\* build emitted
SameOnRepeat ==
  (pc # "idle" /\ pc' = "idle" /\ op = "initial_relation") =>
     Emitted(ret') = Emitted(ret)

\* C17: no build or alias operation changes the base table, the initial
\* columns or the transformations of the query; every build starts from an
\* alias map holding the empty prefix alone and an empty set of join keys;
\* two successive builds emit the same joins and labeled projections.
C17_BuildsIndependent ==
  [][QueryKept /\ FreshScope /\ SameOnRepeat]_vars

\* the second build of a query with transformations has finished, with a
\* join and two projections
C17_Witness ==
  /\ BuildDone /\ buildNo = 2 /\ op = "initial_relation"
  /\ NumSteps = 1
  /\ Len(from_clause.joins) >= 1
  /\ Len(columns) = 2

====
